---------------------------- MODULE Spec2Model ----------------------------
(***************************************************************************)
(* Tic-tac-toe: the Gameboard, the two AI move selectors (minimax in       *)
(* src/script.js, heuristic priority chain in src/unnamed/part_000) and    *)
(* the GameController state machine that both files share.                 *)
(***************************************************************************)
EXTENDS Integers, Sequences, FiniteSets

VARIABLES
    board,           \* Gameboard.board: the 9 cells, indexed 0..8
    player1,         \* GameController.player1: "null" or a Player record
    player2,         \* GameController.player2: "null" or a Player record
    currentPlayer,   \* reference: "null", "player1" or "player2"
    gameOver,        \* GameController.gameOver
    winner,          \* reference: "null", "player1" or "player2"
    vsComputer,      \* GameController.vsComputer
    computerMarker,  \* GameController.computerMarker
    ai,              \* which AI module is loaded: "minimax" or "heuristic"
    result,          \* what the last call of the controller's interface returned
    timers           \* setTimeout callbacks of handleCellClick scheduled and not yet run

vars == <<board, player1, player2, currentPlayer, gameOver, winner,
          vsComputer, computerMarker, ai, result, timers>>

game == <<board, player1, player2, currentPlayer, gameOver, winner,
          vsComputer, computerMarker, ai>>

---------------------------------------------------------------------------
(* Bounds of the model and constants of the program *)

\* Number of cells of the board.
BoardSize == 9

\* How many indices below 0 and above 8 the callers try.
OutOfRange == 1

\* Math.random() is drawn from the grid {0/RandomGrid, ..., (RandomGrid-1)/RandomGrid}.
RandomGrid == 12

\* How many setTimeout callbacks may be scheduled and not yet run.
MaxTimers == 2

Cells == 0 .. (BoardSize - 1)

IndexInputs == (0 - OutOfRange) .. (BoardSize - 1 + OutOfRange)

\* The names passed to initialize.
NameInputs == {"", "Ann"}

\* The most whitespace characters typed before, and after, the text of a
\* name field.
MaxBlanks == 1

\* The UTF-16 code units String.prototype.trim removes: the WhiteSpace of
\* ECMAScript (tab, vertical tab, form feed, U+FEFF and the space separators
\* of Unicode: space, no-break space, U+1680, U+2000 to U+200A, U+202F,
\* U+205F, U+3000) and its LineTerminator (line feed, carriage return,
\* U+2028, U+2029).
Whitespace ==
    {9, 11, 12, 65279}
    \cup ({32, 160, 5760, 8239, 8287, 12288} \cup (8192..8202))
    \cup {10, 13, 8232, 8233}

\* The whitespace typed around a name: space, tab, form feed, no-break space,
\* line separator, ideographic space and U+FEFF.
PaddingInputs == {32, 9, 12, 160, 8232, 12288, 65279}

\* n times the code unit ws.
blanks(n, ws) == [i \in 1..n |-> ws]

\* The texts typed in the name fields, as sequences of UTF-16 code units:
\* nothing, Ann or "A n", with up to MaxBlanks whitespace characters on
\* either side.
TypedInputs ==
    {blanks(before, ws1) \o core \o blanks(after, ws2) :
        before \in 0..MaxBlanks,
        ws1 \in PaddingInputs,
        core \in {<< >>, <<65, 110, 110>>, <<65, 32, 110>>},
        after \in 0..MaxBlanks,
        ws2 \in PaddingInputs}

\* The digits and the Latin letters, in the order of their code units.
Digits == <<"0", "1", "2", "3", "4", "5", "6", "7", "8", "9">>

UpperCase ==
    <<"A", "B", "C", "D", "E", "F", "G", "H", "I", "J", "K", "L", "M",
      "N", "O", "P", "Q", "R", "S", "T", "U", "V", "W", "X", "Y", "Z">>

LowerCase ==
    <<"a", "b", "c", "d", "e", "f", "g", "h", "i", "j", "k", "l", "m",
      "n", "o", "p", "q", "r", "s", "t", "u", "v", "w", "x", "y", "z">>

\* String.fromCharCode on the code units a typed name is made of: the space,
\* the digits and the Latin letters.  Every other code unit of TypedInputs
\* is whitespace around the name.
fromCharCode(code) ==
    CASE code = 32 -> " "
      [] code \in 48..57 -> Digits[code - 47]
      [] code \in 65..90 -> UpperCase[code - 64]
      [] code \in 97..122 -> LowerCase[code - 96]

\* Stands for the JavaScript null where a cell index is expected.
null == -1

\* Stands for JavaScript's Infinity: larger than every score.
Infinity == 100

---------------------------------------------------------------------------
(* Gameboard *)

EmptyBoard == [i \in Cells |-> ""]

\* Gameboard.setCell: the cells after the call.
setCell(b, index, marker) ==
    IF index >= 0 /\ index < BoardSize /\ b[index] = ""
    THEN [b EXCEPT ![index] = marker]
    ELSE b

\* Gameboard.setCell: the value the call returns.
setCellReturns(b, index, marker) ==
    index >= 0 /\ index < BoardSize /\ b[index] = ""

\* getCell returning '' instead of null for an index out of range.
getCell_EmptyOutOfRange(b, index) ==
    IF index >= 0 /\ index < BoardSize THEN b[index] ELSE ""

\* Gameboard.getCell: the cell, or "null" for an index out of range.
getCell(b, index) ==
    IF index >= 0 /\ index < BoardSize THEN b[index] ELSE "null"

\* Gameboard.reset
reset == EmptyBoard

\* Gameboard.isFull
isFull(b) == \A i \in Cells : b[i] # ""

\* The Player factory with its two fields exchanged.
Player_SwapsFields(name, marker) == [name |-> marker, marker |-> name]

\* Player factory
Player(name, marker) == [name |-> name, marker |-> marker]

---------------------------------------------------------------------------
(* The winning triples, in the order of the source *)

winConditions ==
    << <<0, 1, 2>>, <<3, 4, 5>>, <<6, 7, 8>>,
       <<0, 3, 6>>, <<1, 4, 7>>, <<2, 5, 8>>,
       <<0, 4, 8>>, <<2, 4, 6>> >>

\* AI.checkWinner(board, marker)
checkWinner(b, marker) ==
    \E c \in DOMAIN winConditions :
        LET condition == winConditions[c] IN
        /\ b[condition[1]] = marker
        /\ b[condition[2]] = marker
        /\ b[condition[3]] = marker

\* AI.isBoardFull
isBoardFull(b) == \A i \in Cells : b[i] # ""

\* evaluate without its else-if branch: a win of the opponent scores 0.
evaluate_NoOpponentWin(b, cm, pm) ==
    IF checkWinner(b, cm) THEN 10 ELSE 0

\* AI.evaluate
evaluate(b, cm, pm) ==
    IF checkWinner(b, cm) THEN 10
    ELSE IF checkWinner(b, pm) THEN -10
    ELSE 0

---------------------------------------------------------------------------
(* AI of src/script.js: minimax *)

\* Math.max and Math.min over the scores a loop has seen, `seed` included.
SetMax(S) == CHOOSE x \in S : \A y \in S : x >= y
SetMin(S) == CHOOSE x \in S : \A y \in S : x <= y

\* The cells a for loop over 0..8 finds empty.
emptyCells(b) == {i \in Cells : b[i] = ""}

\* minimax without the depth in its terminal scores: every win scores 10 and
\* every loss -10.
RECURSIVE minimax_NoDepth(_, _, _, _, _)
minimax_NoDepth(b, depth, isMaximizing, cm, pm) ==
    LET score == evaluate(b, cm, pm) IN
    IF score = 10 THEN score
    ELSE IF score = -10 THEN score
    ELSE IF isBoardFull(b) THEN 0
    ELSE IF isMaximizing
         THEN SetMax({0 - Infinity} \cup
                     {minimax_NoDepth([b EXCEPT ![i] = cm], depth + 1, FALSE, cm, pm) :
                          i \in emptyCells(b)})
         ELSE SetMin({Infinity} \cup
                     {minimax_NoDepth([b EXCEPT ![i] = pm], depth + 1, TRUE, cm, pm) :
                          i \in emptyCells(b)})

\* AI.minimax. Each branch loops over the empty cells, scores the board with
\* the cell taken (the move is undone after the recursive call) and keeps
\* Math.max (Math.min) of the scores, starting from -Infinity (Infinity).
RECURSIVE minimax(_, _, _, _, _)
minimax(b, depth, isMaximizing, cm, pm) ==
    LET score == evaluate(b, cm, pm) IN
    IF score = 10 THEN score - depth
    ELSE IF score = -10 THEN score + depth
    ELSE IF isBoardFull(b) THEN 0
    ELSE IF isMaximizing
         THEN SetMax({0 - Infinity} \cup
                     {minimax([b EXCEPT ![i] = cm], depth + 1, FALSE, cm, pm) :
                          i \in emptyCells(b)})
         ELSE SetMin({Infinity} \cup
                     {minimax([b EXCEPT ![i] = pm], depth + 1, TRUE, cm, pm) :
                          i \in emptyCells(b)})

\* The loop of getBestMove without its test that the cell is empty.
RECURSIVE bestMoveLoop_NoEmptyTest(_, _, _, _, _)
bestMoveLoop_NoEmptyTest(b, cm, pm, i, best) ==
    IF i >= BoardSize THEN best[2]
    ELSE LET score == minimax([b EXCEPT ![i] = cm], 0, FALSE, cm, pm) IN
         bestMoveLoop_NoEmptyTest(b, cm, pm, i + 1,
                                  IF score > best[1] THEN <<score, i>> ELSE best)

\* The loop of getBestMove with >= for > in its comparison of scores.
RECURSIVE bestMoveLoop_KeepsLastMaximum(_, _, _, _, _)
bestMoveLoop_KeepsLastMaximum(b, cm, pm, i, best) ==
    IF i >= BoardSize THEN best[2]
    ELSE IF b[i] = ""
    THEN LET score == minimax([b EXCEPT ![i] = cm], 0, FALSE, cm, pm) IN
         bestMoveLoop_KeepsLastMaximum(b, cm, pm, i + 1,
                                       IF score >= best[1] THEN <<score, i>> ELSE best)
    ELSE bestMoveLoop_KeepsLastMaximum(b, cm, pm, i + 1, best)

\* The for loop of getBestMove, from cell i on; best = <<bestScore, bestMove>>.
RECURSIVE bestMoveLoop(_, _, _, _, _)
bestMoveLoop(b, cm, pm, i, best) ==
    IF i >= BoardSize THEN best[2]
    ELSE IF b[i] = ""
    THEN LET score == minimax([b EXCEPT ![i] = cm], 0, FALSE, cm, pm) IN
         bestMoveLoop(b, cm, pm, i + 1,
                      IF score > best[1] THEN <<score, i>> ELSE best)
    ELSE bestMoveLoop(b, cm, pm, i + 1, best)

\* AI.getBestMove of src/script.js
getBestMove(b, cm, pm) == bestMoveLoop(b, cm, pm, 0, <<0 - Infinity, null>>)

---------------------------------------------------------------------------
(* AI of src/unnamed/part_000: win, block, center, corner, edge *)

\* The first empty cell of the first triple holding two `marker` and one
\* empty cell, from triple c on; null when there is none.
RECURSIVE findWinningMoveFrom(_, _, _)
findWinningMoveFrom(b, marker, c) ==
    IF c > Len(winConditions) THEN null
    ELSE LET cond == winConditions[c]
             markerCount == Cardinality({k \in 1 .. 3 : b[cond[k]] = marker})
             emptyCount == Cardinality({k \in 1 .. 3 : b[cond[k]] = ""})
         IN IF markerCount = 2 /\ emptyCount = 1
            THEN IF b[cond[1]] = "" THEN cond[1]
                 ELSE IF b[cond[2]] = "" THEN cond[2]
                 ELSE cond[3]
            ELSE findWinningMoveFrom(b, marker, c + 1)

\* AI.findWinningMove
findWinningMove(b, marker) == findWinningMoveFrom(b, marker, 1)

corners == <<0, 2, 6, 8>>
edges == <<1, 3, 5, 7>>

\* Array.filter(index => board[index] === '')
available(b, list) == SelectSeq(list, LAMBDA index : b[index] = "")

\* list[Math.floor(Math.random() * list.length)], Math.random() = r / RandomGrid
randomElement(list, r) == list[((r * Len(list)) \div RandomGrid) + 1]

\* getBestMove with its steps 1 and 2 exchanged: the block is tried first.
heuristicGetBestMove_BlockFirst(b, cm, pm, r) ==
    LET win == findWinningMove(b, cm)
        block == findWinningMove(b, pm)
        availableCorners == available(b, corners)
        availableEdges == available(b, edges)
    IN IF block # null THEN block
       ELSE IF win # null THEN win
       ELSE IF b[4] = "" THEN 4
       ELSE IF Len(availableCorners) > 0 THEN randomElement(availableCorners, r)
       ELSE IF Len(availableEdges) > 0 THEN randomElement(availableEdges, r)
       ELSE null

\* getBestMove with its steps 2 and 3 exchanged: the center is tried before
\* the block.
heuristicGetBestMove_CenterBeforeBlock(b, cm, pm, r) ==
    LET win == findWinningMove(b, cm)
        block == findWinningMove(b, pm)
        availableCorners == available(b, corners)
        availableEdges == available(b, edges)
    IN IF win # null THEN win
       ELSE IF b[4] = "" THEN 4
       ELSE IF block # null THEN block
       ELSE IF Len(availableCorners) > 0 THEN randomElement(availableCorners, r)
       ELSE IF Len(availableEdges) > 0 THEN randomElement(availableEdges, r)
       ELSE null

\* getBestMove with its steps 4 and 5 exchanged: an edge is taken before a
\* corner.
heuristicGetBestMove_EdgesBeforeCorners(b, cm, pm, r) ==
    LET win == findWinningMove(b, cm)
        block == findWinningMove(b, pm)
        availableCorners == available(b, corners)
        availableEdges == available(b, edges)
    IN IF win # null THEN win
       ELSE IF block # null THEN block
       ELSE IF b[4] = "" THEN 4
       ELSE IF Len(availableEdges) > 0 THEN randomElement(availableEdges, r)
       ELSE IF Len(availableCorners) > 0 THEN randomElement(availableCorners, r)
       ELSE null

\* AI.getBestMove of src/unnamed/part_000, with r the draw of Math.random.
heuristicGetBestMove(b, cm, pm, r) ==
    LET win == findWinningMove(b, cm)
        block == findWinningMove(b, pm)
        availableCorners == available(b, corners)
        availableEdges == available(b, edges)
    IN IF win # null THEN win
       ELSE IF block # null THEN block
       ELSE IF b[4] = "" THEN 4
       ELSE IF Len(availableCorners) > 0 THEN randomElement(availableCorners, r)
       ELSE IF Len(availableEdges) > 0 THEN randomElement(availableEdges, r)
       ELSE null

\* The draws of Math.random: r stands for r / RandomGrid.
RandomDraws == 0 .. (RandomGrid - 1)

\* The moves AI.getBestMove of the loaded module can return: one for minimax,
\* one for each draw of Math.random for the heuristic.
aiBestMoves(b, cm, pm) ==
    IF ai = "minimax" THEN {getBestMove(b, cm, pm)}
    ELSE {heuristicGetBestMove(b, cm, pm, r) : r \in RandomDraws}

---------------------------------------------------------------------------
(* GameController *)

\* player.marker of the player a reference points to.
markerOf(ref) == IF ref = "player1" THEN player1.marker ELSE player2.marker

\* name || fallback
orDefault(name, fallback) == IF name = "" THEN fallback ELSE name

Init ==
    /\ board = EmptyBoard
    /\ player1 = "null"
    /\ player2 = "null"
    /\ currentPlayer = "null"
    /\ gameOver = FALSE
    /\ winner = "null"
    /\ vsComputer = FALSE
    /\ computerMarker = "O"
    /\ ai \in {"minimax", "heuristic"}
    /\ result = [op |-> "none"]
    /\ timers = 0

\* initialize without vsComputer = false in its else branch.
initialize_KeepsMode(name1, name2, isVsComputer) ==
    /\ player1' = Player(orDefault(name1, "Player 1"), "X")
    /\ IF isVsComputer
       THEN /\ player2' = Player("Computer", "O")
            /\ vsComputer' = TRUE
            /\ computerMarker' = "O"
       ELSE /\ player2' = Player(orDefault(name2, "Player 2"), "O")
            /\ UNCHANGED <<vsComputer, computerMarker>>
    /\ currentPlayer' = "player1"
    /\ gameOver' = FALSE
    /\ winner' = "null"
    /\ board' = reset
    /\ result' = [op |-> "initialize"]
    /\ UNCHANGED ai

\* GameController.initialize(name1, name2, isVsComputer)
initialize(name1, name2, isVsComputer) ==
    /\ player1' = Player(orDefault(name1, "Player 1"), "X")
    /\ IF isVsComputer
       THEN /\ player2' = Player("Computer", "O")
            /\ vsComputer' = TRUE
            /\ computerMarker' = "O"
       ELSE /\ player2' = Player(orDefault(name2, "Player 2"), "O")
            /\ vsComputer' = FALSE
            /\ UNCHANGED computerMarker
    /\ currentPlayer' = "player1"
    /\ gameOver' = FALSE
    /\ winner' = "null"
    /\ board' = reset
    /\ result' = [op |-> "initialize"]
    /\ UNCHANGED ai

\* switchPlayer with player2 written in both branches of the conditional.
switchPlayer_AlwaysPlayer2(cur) == IF cur = "player1" THEN "player2" ELSE "player2"

\* GameController.switchPlayer: the new current player.
switchPlayer(cur) == IF cur = "player1" THEN "player2" ELSE "player1"

\* A return of { success: false, message } that leaves the game as it is.
rejectMove(op, message) ==
    /\ result' = [op |-> op, success |-> FALSE, message |-> message]
    /\ UNCHANGED game

\* checkWinner with the two diagonals missing from its table.
controllerCheckWinner_NoDiagonals(b) ==
    LET marker == markerOf(currentPlayer) IN
    \E c \in 1 .. 6 :
        LET condition == winConditions[c] IN
        /\ b[condition[1]] = marker
        /\ b[condition[2]] = marker
        /\ b[condition[3]] = marker

\* GameController.checkWinner on the board b: the current player's marker
\* fills one of the triples (the controller's table lists the same eight
\* triples in the same order as the AI's).
controllerCheckWinner(b) ==
    LET marker == markerOf(currentPlayer) IN
    \E c \in DOMAIN winConditions :
        LET condition == winConditions[c] IN
        /\ b[condition[1]] = marker
        /\ b[condition[2]] = marker
        /\ b[condition[3]] = marker

\* placeMarker without the test of the full board.
placeMarker_NoDrawTest(index, op) ==
    IF currentPlayer = "null"
    THEN /\ result' = [op |-> op, threw |-> "TypeError"]
         /\ UNCHANGED game
    ELSE LET marker == markerOf(currentPlayer)
             after == setCell(board, index, marker)
         IN /\ board' = after
            /\ IF controllerCheckWinner(after)
               THEN /\ gameOver' = TRUE
                    /\ winner' = currentPlayer
                    /\ result' = [op |-> op, success |-> TRUE, gameOver |-> TRUE,
                                  winner |-> currentPlayer]
                    /\ UNCHANGED currentPlayer
               ELSE /\ currentPlayer' = switchPlayer(currentPlayer)
                    /\ result' = [op |-> op, success |-> TRUE, gameOver |-> FALSE]
                    /\ UNCHANGED <<gameOver, winner>>
            /\ UNCHANGED <<player1, player2, vsComputer, computerMarker, ai>>

\* placeMarker with the full board tested before the win.
placeMarker_FullBeforeWin(index, op) ==
    IF currentPlayer = "null"
    THEN /\ result' = [op |-> op, threw |-> "TypeError"]
         /\ UNCHANGED game
    ELSE LET marker == markerOf(currentPlayer)
             after == setCell(board, index, marker)
         IN /\ board' = after
            /\ IF isFull(after)
               THEN /\ gameOver' = TRUE
                    /\ result' = [op |-> op, success |-> TRUE, gameOver |-> TRUE,
                                  winner |-> "null"]
                    /\ UNCHANGED <<winner, currentPlayer>>
               ELSE IF controllerCheckWinner(after)
               THEN /\ gameOver' = TRUE
                    /\ winner' = currentPlayer
                    /\ result' = [op |-> op, success |-> TRUE, gameOver |-> TRUE,
                                  winner |-> currentPlayer]
                    /\ UNCHANGED currentPlayer
               ELSE /\ currentPlayer' = switchPlayer(currentPlayer)
                    /\ result' = [op |-> op, success |-> TRUE, gameOver |-> FALSE]
                    /\ UNCHANGED <<gameOver, winner>>
            /\ UNCHANGED <<player1, player2, vsComputer, computerMarker, ai>>

\* GameController.makeMove from Gameboard.setCell on: the marker is written,
\* then the win, the full board and the switch of players are tried in turn.
placeMarker(index, op) ==
    IF currentPlayer = "null"
    THEN \* currentPlayer.marker of null: a TypeError, raised before setCell runs
         /\ result' = [op |-> op, threw |-> "TypeError"]
         /\ UNCHANGED game
    ELSE LET marker == markerOf(currentPlayer)
             after == setCell(board, index, marker)
         IN /\ board' = after
            /\ IF controllerCheckWinner(after)
               THEN /\ gameOver' = TRUE
                    /\ winner' = currentPlayer
                    /\ result' = [op |-> op, success |-> TRUE, gameOver |-> TRUE,
                                  winner |-> currentPlayer]
                    /\ UNCHANGED currentPlayer
               ELSE IF isFull(after)
               THEN /\ gameOver' = TRUE
                    /\ result' = [op |-> op, success |-> TRUE, gameOver |-> TRUE,
                                  winner |-> "null"]
                    /\ UNCHANGED <<winner, currentPlayer>>
               ELSE /\ currentPlayer' = switchPlayer(currentPlayer)
                    /\ result' = [op |-> op, success |-> TRUE, gameOver |-> FALSE]
                    /\ UNCHANGED <<gameOver, winner>>
            /\ UNCHANGED <<player1, player2, vsComputer, computerMarker, ai>>

\* makeMove without its first guard, if (gameOver).
makeMoveBody_NoGameOverCheck(index, op) ==
    IF getCell(board, index) # "" THEN rejectMove(op, "Cell is already taken!")
    ELSE placeMarker(index, op)

\* makeMove without its second guard, if (Gameboard.getCell(index) !== '').
makeMoveBody_NoTakenCheck(index, op) ==
    IF gameOver THEN rejectMove(op, "Game is over!")
    ELSE placeMarker(index, op)

\* makeMove with its two guards in the other order.
makeMoveBody_TakenFirst(index, op) ==
    IF getCell(board, index) # "" THEN rejectMove(op, "Cell is already taken!")
    ELSE IF gameOver THEN rejectMove(op, "Game is over!")
    ELSE placeMarker(index, op)

\* The body of GameController.makeMove(index); op names the interface call
\* whose return value this is (makeComputerMove returns makeMove's result).
makeMoveBody(index, op) ==
    IF gameOver THEN rejectMove(op, "Game is over!")
    ELSE IF getCell(board, index) # "" THEN rejectMove(op, "Cell is already taken!")
    ELSE placeMarker(index, op)

\* GameController.makeMove(index)
makeMove(index) == makeMoveBody(index, "makeMove")

\* GameController.isComputerTurn; reading currentPlayer.marker of null throws,
\* which the short circuit of && prevents while vsComputer is false.
isComputerTurnThrows == vsComputer /\ currentPlayer = "null"

isComputerTurn ==
    vsComputer /\ currentPlayer # "null" /\ markerOf(currentPlayer) = computerMarker

\* A return of { success: false } that leaves the game as it is.
refuseComputerMove ==
    /\ result' = [op |-> "makeComputerMove", success |-> FALSE]
    /\ UNCHANGED game

\* makeComputerMove with && for || in its guard.
makeComputerMove_AndGuard ==
    IF isComputerTurnThrows \/ currentPlayer = "null"
    THEN /\ result' = [op |-> "makeComputerMove", threw |-> "TypeError"]
         /\ UNCHANGED game
    ELSE IF ~isComputerTurn /\ gameOver THEN refuseComputerMove
    ELSE \E move \in aiBestMoves(board, computerMarker, player1.marker) :
         IF move # null
         THEN makeMoveBody(move, "makeComputerMove")
         ELSE refuseComputerMove

\* GameController.makeComputerMove()
makeComputerMove ==
    IF isComputerTurnThrows
    THEN /\ result' = [op |-> "makeComputerMove", threw |-> "TypeError"]
         /\ UNCHANGED game
    ELSE IF ~isComputerTurn \/ gameOver THEN refuseComputerMove
    ELSE \E move \in aiBestMoves(board, computerMarker, player1.marker) :
         IF move # null
         THEN makeMoveBody(move, "makeComputerMove")
         ELSE refuseComputerMove

\* What getWinningCells returns for null.
noCells == << >>

\* The for loop of getWinningCells, from triple c on.
RECURSIVE winningCellsFrom(_, _, _)
winningCellsFrom(b, marker, c) ==
    IF c > Len(winConditions) THEN noCells
    ELSE LET condition == winConditions[c] IN
         IF /\ b[condition[1]] = marker
            /\ b[condition[2]] = marker
            /\ b[condition[3]] = marker
         THEN condition
         ELSE winningCellsFrom(b, marker, c + 1)

\* The loop of getWinningCells without its early return: the last triple
\* that matches is kept.
RECURSIVE lastWinningCellsFrom(_, _, _, _)
lastWinningCellsFrom(b, marker, c, found) ==
    IF c > Len(winConditions) THEN found
    ELSE LET condition == winConditions[c] IN
         IF /\ b[condition[1]] = marker
            /\ b[condition[2]] = marker
            /\ b[condition[3]] = marker
         THEN lastWinningCellsFrom(b, marker, c + 1, condition)
         ELSE lastWinningCellsFrom(b, marker, c + 1, found)

getWinningCells_LastTriple ==
    IF ~gameOver \/ winner = "null" THEN noCells
    ELSE lastWinningCellsFrom(board, markerOf(winner), 1, noCells)

\* GameController.getWinningCells(): a getter, evaluated on the state as it is.
getWinningCells ==
    IF ~gameOver \/ winner = "null" THEN noCells
    ELSE winningCellsFrom(board, markerOf(winner), 1)

\* The calls below come from no DisplayController: no callback is scheduled.
Next ==
    \/ \E name1 \in NameInputs, name2 \in NameInputs, isVsComputer \in BOOLEAN :
           initialize(name1, name2, isVsComputer) /\ UNCHANGED timers
    \/ \E index \in IndexInputs : makeMove(index) /\ UNCHANGED timers
    \/ makeComputerMove /\ UNCHANGED timers

\* Any caller: initialize, makeMove and makeComputerMove in any order.
Spec == Init /\ [][Next]_vars

---------------------------------------------------------------------------
(* The page: DisplayController's buttons, cell clicks and the delayed       *)
(* computer move.  render() runs at page load and after every change of the *)
(* game, so the cells with a click listener are the empty cells while the   *)
(* game is not over, and none once disableBoard has run.                    *)

RECURSIVE trimStart(_), trimEnd(_), text(_)

\* value.trim(): the text without the whitespace at its start and end.
trimStart(chars) ==
    IF chars # << >> /\ Head(chars) \in Whitespace
    THEN trimStart(Tail(chars))
    ELSE chars

trimEnd(chars) ==
    IF chars # << >> /\ chars[Len(chars)] \in Whitespace
    THEN trimEnd(SubSeq(chars, 1, Len(chars) - 1))
    ELSE chars

trim(chars) == trimEnd(trimStart(chars))

\* The string of a sequence of code units.
text(chars) ==
    IF chars = << >> THEN "" ELSE fromCharCode(Head(chars)) \o text(Tail(chars))

\* startGame: the start button is shown until the first game starts.  It
\* reads the two name fields and the mode radios; the name fields are
\* trimmed and an empty one gets its default; the second name is 'Computer'
\* in computer mode.
startGame ==
    /\ currentPlayer = "null"
    /\ \E typed1 \in TypedInputs, typed2 \in TypedInputs, isVsComputer \in BOOLEAN :
           initialize(orDefault(text(trim(typed1)), "Player 1"),
                      IF isVsComputer THEN "Computer"
                      ELSE orDefault(text(trim(typed2)), "Player 2"),
                      isVsComputer)
    /\ UNCHANGED timers

\* restartGame: the restart button is shown once a game is over; the name
\* fields and the mode radios were disabled by startGame, so the same values
\* are read again.
restartGame ==
    /\ gameOver
    /\ initialize(player1.name, player2.name, vsComputer)
    /\ UNCHANGED timers

\* handleCellClick on the cell index, which has a listener.  A successful
\* move that leaves the game going on the computer's turn schedules the
\* computer's move 500 ms later.  The page takes the click however many
\* callbacks are pending; only a click that would schedule one more than
\* MaxTimers is left out.
handleCellClick(index) ==
    /\ ~gameOver
    /\ board[index] = ""
    /\ makeMove(index)
    /\ timers' = IF /\ "success" \in DOMAIN result'
                    /\ result'.success
                    /\ ~result'.gameOver
                    /\ vsComputer'
                    /\ isComputerTurn'
                 THEN timers + 1
                 ELSE timers
    /\ timers' <= MaxTimers

\* The setTimeout callback of handleCellClick.
computerMoveCallback ==
    /\ timers > 0
    /\ makeComputerMove
    /\ timers' = timers - 1

PageNext ==
    \/ startGame
    \/ restartGame
    \/ \E index \in Cells : handleCellClick(index)
    \/ computerMoveCallback

SpecPage == Init /\ [][PageNext]_vars

---------------------------------------------------------------------------
(* The Gameboard module called on its own: setCell and reset.              *)

MarkerInputs == {"X", "O"}

\* setCell that writes whenever the index is in range.
gameboardSetCell_NoEmptyTest(index, marker) ==
    /\ board' = IF index >= 0 /\ index < BoardSize
                THEN [board EXCEPT ![index] = marker]
                ELSE board
    /\ result' = [op |-> "setCell",
                  returned |-> (index >= 0 /\ index < BoardSize)]
    /\ UNCHANGED <<player1, player2, currentPlayer, gameOver, winner,
                   vsComputer, computerMarker, ai>>

\* Gameboard.setCell(index, marker)
gameboardSetCell(index, marker) ==
    /\ board' = setCell(board, index, marker)
    /\ result' = [op |-> "setCell", returned |-> setCellReturns(board, index, marker)]
    /\ UNCHANGED <<player1, player2, currentPlayer, gameOver, winner,
                   vsComputer, computerMarker, ai>>

\* Gameboard.reset()
gameboardReset ==
    /\ board' = reset
    /\ result' = [op |-> "reset"]
    /\ UNCHANGED <<player1, player2, currentPlayer, gameOver, winner,
                   vsComputer, computerMarker, ai>>

BoardNext ==
    \/ \E index \in IndexInputs, marker \in MarkerInputs :
           gameboardSetCell(index, marker) /\ UNCHANGED timers
    \/ gameboardReset /\ UNCHANGED timers

SpecBoard == Init /\ [][BoardNext]_vars

---------------------------------------------------------------------------
(* One game, from initialize on, in which moves keep being attempted on    *)
(* empty cells.                                                            *)

\* The state initialize(name1, name2, isVsComputer) leaves.
GameInit ==
    /\ board = reset
    /\ player1 = Player("Player 1", "X")
    /\ vsComputer \in BOOLEAN
    /\ player2 = IF vsComputer THEN Player("Computer", "O") ELSE Player("Player 2", "O")
    /\ currentPlayer = "player1"
    /\ gameOver = FALSE
    /\ winner = "null"
    /\ computerMarker = "O"
    /\ ai \in {"minimax", "heuristic"}
    /\ result = [op |-> "initialize"]
    /\ timers = 0

\* makeMove(index) on a cell that is empty.
attemptMove ==
    \E index \in Cells : board[index] = "" /\ makeMove(index) /\ UNCHANGED timers

\* makeComputerMove(), which the caller may try at any time.
attemptComputerMove == makeComputerMove /\ UNCHANGED timers

GameNext == attemptMove \/ attemptComputerMove

\* Moves keep being attempted on empty cells: attemptMove is not put off
\* for ever.
SpecGame == GameInit /\ [][GameNext]_vars /\ WF_vars(attemptMove)

---------------------------------------------------------------------------
(* The move selectors applied to every board that arises in play.          *)

count(b, marker) == Cardinality({i \in Cells : b[i] = marker})

\* The boards of a game: X moves first, the players alternate, and no marker
\* is placed after a win.
arisesInPlay(b) ==
    LET x == count(b, "X")
        o == count(b, "O")
    IN /\ x - o \in {0, 1}
       /\ checkWinner(b, "X") => (x = o + 1 /\ ~checkWinner(b, "O"))
       /\ checkWinner(b, "O") => x = o

PlayBoards == {b \in [Cells -> {"", "X", "O"}] : arisesInPlay(b)}

\* A versus-computer game whose board is b.
SelectInit ==
    /\ board \in PlayBoards
    /\ player1 = Player("Player 1", "X")
    /\ player2 = Player("Computer", "O")
    /\ gameOver = (checkWinner(board, "X") \/ checkWinner(board, "O") \/ isFull(board))
    /\ winner = IF checkWinner(board, "X") THEN "player1"
                ELSE IF checkWinner(board, "O") THEN "player2" ELSE "null"
    /\ currentPlayer =
           IF gameOver
           THEN (IF count(board, "X") > count(board, "O") THEN "player1" ELSE "player2")
           ELSE (IF count(board, "X") > count(board, "O") THEN "player2" ELSE "player1")
    /\ vsComputer = TRUE
    /\ computerMarker = "O"
    /\ ai \in {"minimax", "heuristic"}
    /\ result = [op |-> "initialize"]
    /\ timers = 0

\* AI.getBestMove(board, computerMarker, playerMarker) on the board as it is.
select ==
    /\ result.op # "getBestMove"
    /\ \E move \in aiBestMoves(board, computerMarker, player1.marker) :
           result' = [op |-> "getBestMove", move |-> move]
    /\ UNCHANGED game
    /\ UNCHANGED timers

SpecSelect == SelectInit /\ [][select]_vars

---------------------------------------------------------------------------
(* AI.getBestMove called as a function, on any array of nine cells.        *)

AnyBoards == [Cells -> {"", "X", "O"}]

\* board holds the array passed as the first argument of the call; the
\* controller is as initialize(name1, "", true) leaves it.
CallInit ==
    /\ board \in AnyBoards
    /\ player1 = Player("Player 1", "X")
    /\ player2 = Player("Computer", "O")
    /\ currentPlayer = "player1"
    /\ gameOver = FALSE
    /\ winner = "null"
    /\ vsComputer = TRUE
    /\ computerMarker = "O"
    /\ ai \in {"minimax", "heuristic"}
    /\ result = [op |-> "initialize"]
    /\ timers = 0

SpecCall == CallInit /\ [][select]_vars

---------------------------------------------------------------------------
(* The minimax search as the code runs it: on one array that is written    *)
(* and restored in place.  Every operator returns the array as the call    *)
(* leaves it, next to the value the call returns.                          *)

RECURSIVE minimaxInPlace(_, _, _, _, _)
RECURSIVE minimaxLoopInPlace(_, _, _, _, _, _, _)

\* The for loop of a branch of minimax, from cell i on: <<bestScore, array>>.
minimaxLoopInPlace(b, depth, isMaximizing, cm, pm, i, bestScore) ==
    IF i >= BoardSize THEN <<bestScore, b>>
    ELSE IF b[i] = ""
    THEN LET made == [b EXCEPT ![i] = IF isMaximizing THEN cm ELSE pm]
             call == minimaxInPlace(made, depth + 1, ~isMaximizing, cm, pm)
             undone == [call[2] EXCEPT ![i] = ""]
             score == call[1]
         IN minimaxLoopInPlace(undone, depth, isMaximizing, cm, pm, i + 1,
                IF isMaximizing
                THEN (IF score > bestScore THEN score ELSE bestScore)
                ELSE (IF score < bestScore THEN score ELSE bestScore))
    ELSE minimaxLoopInPlace(b, depth, isMaximizing, cm, pm, i + 1, bestScore)

\* AI.minimax on the array b: <<returned score, array after the call>>.
minimaxInPlace(b, depth, isMaximizing, cm, pm) ==
    LET score == evaluate(b, cm, pm) IN
    IF score = 10 THEN <<score - depth, b>>
    ELSE IF score = -10 THEN <<score + depth, b>>
    ELSE IF isBoardFull(b) THEN <<0, b>>
    ELSE minimaxLoopInPlace(b, depth, isMaximizing, cm, pm, 0,
                            IF isMaximizing THEN 0 - Infinity ELSE Infinity)

\* The loop of getBestMove without its line boardCopy[i] = ''.
RECURSIVE bestMoveLoopInPlace_NoUndo(_, _, _, _, _)
bestMoveLoopInPlace_NoUndo(boardCopy, cm, pm, i, best) ==
    IF i >= BoardSize THEN [move |-> best[2], boardCopy |-> boardCopy]
    ELSE IF boardCopy[i] = ""
    THEN LET made == [boardCopy EXCEPT ![i] = cm]
             call == minimaxInPlace(made, 0, FALSE, cm, pm)
             score == call[1]
         IN bestMoveLoopInPlace_NoUndo(call[2], cm, pm, i + 1,
                IF score > best[1] THEN <<score, i>> ELSE best)
    ELSE bestMoveLoopInPlace_NoUndo(boardCopy, cm, pm, i + 1, best)

\* The for loop of getBestMove on boardCopy, from cell i on; best is
\* <<bestScore, bestMove>>.  Returns the move and boardCopy as the loop
\* leaves it.
RECURSIVE bestMoveLoopInPlace(_, _, _, _, _)
bestMoveLoopInPlace(boardCopy, cm, pm, i, best) ==
    IF i >= BoardSize THEN [move |-> best[2], boardCopy |-> boardCopy]
    ELSE IF boardCopy[i] = ""
    THEN LET made == [boardCopy EXCEPT ![i] = cm]
             call == minimaxInPlace(made, 0, FALSE, cm, pm)
             undone == [call[2] EXCEPT ![i] = ""]
             score == call[1]
         IN bestMoveLoopInPlace(undone, cm, pm, i + 1,
                IF score > best[1] THEN <<score, i>> ELSE best)
    ELSE bestMoveLoopInPlace(boardCopy, cm, pm, i + 1, best)

\* AI.getBestMove(board, computerMarker, playerMarker) of src/script.js.  The
\* search writes to boardCopy = [...board] only, so the array passed in
\* stays as it is; the result records the move and boardCopy at the return.
search ==
    /\ result.op # "getBestMove"
    /\ LET done == bestMoveLoopInPlace(board, computerMarker, player1.marker, 0,
                                       <<0 - Infinity, null>>)
       IN result' = [op |-> "getBestMove", move |-> done.move,
                     boardCopy |-> done.boardCopy]
    /\ UNCHANGED game
    /\ UNCHANGED timers

\* The minimax AI called on the board of a game, as makeComputerMove calls it.
SearchInit == SelectInit /\ ai = "minimax"

SpecSearch == SearchInit /\ [][search]_vars

---------------------------------------------------------------------------
(* Properties.  They are stated with the definitions below, which do not   *)
(* use the operators of the controller or of the selectors.                *)

\* The eight winning lines as sets of cells.
Lines == {{0, 1, 2}, {3, 4, 5}, {6, 7, 8},
          {0, 3, 6}, {1, 4, 7}, {2, 5, 8},
          {0, 4, 8}, {2, 4, 6}}

Occupies(b, marker) == \E line \in Lines : \A i \in line : b[i] = marker

Empties(b) == {i \in Cells : b[i] = ""}

Put(b, i, marker) == [b EXCEPT ![i] = marker]

Other(ref) == IF ref = "player1" THEN "player2" ELSE "player1"

\* What a returned value says.
Succeeded(r) == "success" \in DOMAIN r /\ r.success
Failed(r) == "success" \in DOMAIN r /\ ~r.success
Threw(r) == "threw" \in DOMAIN r

\* The computer (marker cm, to move on b) has a move after which it has won,
\* or after which every reply of the opponent leaves neither a win of the
\* opponent nor a full board, and again a position of this kind.
RECURSIVE CanForceWin(_, _, _)
CanForceWin(b, cm, pm) ==
    \E i \in Empties(b) :
        LET mine == Put(b, i, cm) IN
        \/ Occupies(mine, cm)
        \/ /\ Empties(mine) # {}
           /\ \A j \in Empties(mine) :
                  LET theirs == Put(mine, j, pm) IN
                  /\ ~Occupies(theirs, pm)
                  /\ CanForceWin(theirs, cm, pm)

\* The opponent (marker pm, to move on b) is lost: the board has an empty cell
\* and whatever cell the opponent takes, the opponent has not won, the board
\* is not full and the computer can force a win.
HumanLost(b, cm, pm) ==
    /\ Empties(b) # {}
    /\ \A j \in Empties(b) :
           LET theirs == Put(b, j, pm) IN
           /\ ~Occupies(theirs, pm)
           /\ Empties(theirs) # {}
           /\ CanForceWin(theirs, cm, pm)

ComputerToMove == vsComputer /\ currentPlayer = "player2" /\ ~gameOver

HumanToMove == vsComputer /\ currentPlayer = "player1" /\ ~gameOver

\* The human (X, to move on b) cannot force a win; on the empty board this
\* is what the moves from it are checked to keep.
SafeBeforeHuman(b) == Empties(b) = Cells \/ ~CanForceWin(b, "X", "O")

\* The computer (O, to move on b) is not lost.
SafeBeforeComputer(b) == ~HumanLost(b, "X", "O")

\* C1: in versus-computer mode with the minimax selector, as long as the
\* human calls makeMove on an empty cell on their turn and the computer moves
\* by makeComputerMove on its turn, no finished game has player 1 as winner.
\* Stated step by step: a game starts with the human to move on the empty
\* board; a human move on the human's turn from a position the human cannot
\* win by force, and a makeComputerMove on the computer's turn from a
\* position in which the computer is not lost, either end the game without
\* player 1 as winner or pass the turn in a position of the other kind.
C1_ProtocolStep ==
    /\ (result'.op = "initialize" /\ vsComputer')
       => (Empties(board') = Cells /\ currentPlayer' = "player1" /\ ~gameOver')
    /\ (/\ ai = "minimax"
        /\ HumanToMove
        /\ SafeBeforeHuman(board)
        /\ result'.op = "makeMove"
        /\ Succeeded(result'))
       => IF gameOver' THEN winner' # "player1"
          ELSE currentPlayer' = "player2" /\ SafeBeforeComputer(board')
    /\ (/\ ai = "minimax"
        /\ ComputerToMove
        /\ SafeBeforeComputer(board)
        /\ result'.op = "makeComputerMove")
       => IF gameOver' THEN winner' # "player1"
          ELSE currentPlayer' = "player1" /\ SafeBeforeHuman(board')

C1_MinimaxNeverLoses == [][C1_ProtocolStep]_vars

\* A game the minimax computer has won by its own move, the players having
\* moved in turn.
C1_Witness ==
    /\ ai = "minimax"
    /\ vsComputer
    /\ gameOver
    /\ winner = "player2"
    /\ result.op = "makeComputerMove"
    /\ Occupies(board, "O")
    /\ ~Occupies(board, "X")

\* C9: in play against the minimax selector, when it is the computer's turn
\* in a position from which it can force a win against every reply,
\* makeComputerMove either wins the game for the computer at once or leaves
\* the human lost; and a move of a lost human neither ends the game nor takes
\* the forced win away.  The board fills up, so such play ends with the
\* computer (player 2) as winner.
C9_ForcedWinIsKept ==
    /\ (/\ ai = "minimax"
        /\ result'.op = "makeComputerMove"
        /\ ComputerToMove
        /\ CanForceWin(board, "O", "X"))
       => \/ gameOver' /\ winner' = "player2" /\ Occupies(board', "O")
          \/ ~gameOver' /\ currentPlayer' = "player1" /\ HumanLost(board', "O", "X")
    /\ (/\ ai = "minimax"
        /\ result'.op = "makeMove"
        /\ Succeeded(result')
        /\ HumanToMove
        /\ HumanLost(board, "O", "X"))
       => ~gameOver' /\ currentPlayer' = "player2" /\ CanForceWin(board', "O", "X")

C9_ForcedWinIsWon == [][C9_ForcedWinIsKept]_vars

\* The computer has just moved from a position with a forced win that was
\* not yet a win in one move, and the human is lost.
C9_Witness ==
    /\ ai = "minimax"
    /\ result.op = "makeComputerMove"
    /\ HumanToMove
    /\ HumanLost(board, "O", "X")

\* The marker of the player a reference points to: initialize gives X to
\* player 1 and O to player 2.
MarkerOfPlayer(ref) == IF ref = "player1" THEN "X" ELSE "O"

\* Nothing but the board, the current player, the game-over flag, the winner
\* and the returned value changes.
RestUnchanged == UNCHANGED <<player1, player2, vsComputer, computerMarker, ai>>

\* The step writes the mover's marker to the empty cell index and then ends
\* the game with a win, ends it with a draw, or passes the turn; the returned
\* value of the call op reports the same.
MoveTransition(index, mover, op) ==
    /\ board' = Put(board, index, MarkerOfPlayer(mover))
    /\ RestUnchanged
    /\ result'.op = op
    /\ Succeeded(result')
    /\ IF Occupies(board', MarkerOfPlayer(mover))
       THEN /\ gameOver' /\ winner' = mover
            /\ result'.gameOver
            /\ "winner" \in DOMAIN result' /\ result'.winner = mover
       ELSE IF Empties(board') = {}
       THEN /\ gameOver' /\ winner' = "null"
            /\ result'.gameOver
            /\ "winner" \in DOMAIN result' /\ result'.winner = "null"
       ELSE /\ ~gameOver' /\ winner' = "null"
            /\ currentPlayer' = Other(mover)
            /\ ~result'.gameOver
            /\ "winner" \notin DOMAIN result'

\* C2: makeMove(index) on an empty cell of a game in progress writes the
\* current player's marker there; a winning triple of the mover ends the game
\* with the mover as winner (also on the ninth cell), else a full board ends
\* it with no winner, else the turn passes; the result reports the same.
C2_MoveStep ==
    \A index \in Cells :
        (/\ currentPlayer # "null"
         /\ ~gameOver
         /\ board[index] = ""
         /\ makeMove(index))
        => MoveTransition(index, currentPlayer, "makeMove")

C2_MakeMoveTransition == [][C2_MoveStep]_vars

\* The ninth cell was filled by a makeMove that completed a triple.
C2_Witness ==
    /\ result.op = "makeMove"
    /\ Empties(board) = {}
    /\ gameOver
    /\ winner = "player1"
    /\ Occupies(board, "X")

\* C3: once gameOver is set, every makeMove and every makeComputerMove
\* returns success = false and leaves board, current player, winner and
\* gameOver as they are; only initialize leaves this state.
C3_OverStep ==
    (gameOver /\ result'.op \in {"makeMove", "makeComputerMove"})
    => (Failed(result') /\ UNCHANGED game)

C3_OverIsTerminal == [][C3_OverStep]_vars

\* A computer move was refused in a finished versus-computer game that still
\* has empty cells and whose current player is the computer.
C3_Witness ==
    /\ gameOver
    /\ vsComputer
    /\ currentPlayer = "player2"
    /\ Empties(board) # {}
    /\ result.op = "makeComputerMove"
    /\ Failed(result)

\* C4: in an initialized game, makeMove(index) on a cell that holds a marker
\* returns success = false and changes none of board, current player,
\* gameOver and winner.
C4_TakenStep ==
    \A index \in Cells :
        (/\ currentPlayer # "null"
         /\ board[index] # ""
         /\ makeMove(index))
        => (Failed(result') /\ UNCHANGED game)

C4_TakenCellRejected == [][C4_TakenStep]_vars

\* A move on a taken cell was rejected while the game is in progress.
C4_Witness ==
    /\ ~gameOver
    /\ result.op = "makeMove"
    /\ Failed(result)
    /\ Empties(board) # Cells

\* C5: initialize makes player 1 the current player; a successful makeMove
\* that does not end the game writes the current player's marker and passes
\* the turn to the other player; a failed makeMove leaves the turn alone.
C5_TurnStep ==
    /\ result'.op = "initialize" => currentPlayer' = "player1"
    /\ (currentPlayer # "null" /\ result'.op = "makeMove" /\ Failed(result'))
       => currentPlayer' = currentPlayer
    /\ (currentPlayer # "null" /\ result'.op = "makeMove" /\ Succeeded(result')
        /\ ~gameOver')
       => /\ currentPlayer' = Other(currentPlayer)
          /\ \E index \in Empties(board) :
                 board' = Put(board, index, MarkerOfPlayer(currentPlayer))

C5_PlayersAlternate == [][C5_TurnStep]_vars

\* Player 2 has moved and the turn is back with player 1.
C5_Witness ==
    /\ ~gameOver
    /\ result.op = "makeMove"
    /\ Succeeded(result)
    /\ currentPlayer = "player1"
    /\ \E i \in Cells : board[i] = "O"

\* C6: makeMove and makeComputerMove return a result in every state, the
\* state before the first initialize included; no call raises an exception.
C6_NoException == ~Threw(result)

\* C7 as stated: every failing result carries a reason.
C7_EveryFailureHasReason == Failed(result) => "message" \in DOMAIN result

\* C7 as amended: a failing makeMove carries the message 'Game is over!' when
\* the game is over and 'Cell is already taken!' otherwise; a failing
\* makeComputerMove is { success: false } with no reason.
C7_FailureReasons ==
    Failed(result) =>
        IF result.op = "makeMove"
        THEN /\ "message" \in DOMAIN result
             /\ result.message =
                    (IF gameOver THEN "Game is over!" ELSE "Cell is already taken!")
        ELSE /\ result.op = "makeComputerMove"
             /\ DOMAIN result = {"op", "success"}

\* makeComputerMove was refused on the human's turn of a game in progress.
C7_Witness ==
    /\ vsComputer
    /\ ~gameOver
    /\ currentPlayer = "player1"
    /\ result.op = "makeComputerMove"
    /\ Failed(result)

\* It is the computer's turn: versus-computer mode, player 2 current.
ComputerTurn == vsComputer /\ currentPlayer = "player2"

\* C8: makeComputerMove off the computer's turn returns success = false and
\* changes nothing; on the computer's turn of a game in progress it succeeds,
\* writes one 'O' to an empty cell and makes the transition of makeMove.
C8_ComputerStep ==
    /\ (result'.op = "makeComputerMove" /\ ~ComputerTurn)
       => (Failed(result') /\ UNCHANGED game)
    /\ (result'.op = "makeComputerMove" /\ ComputerTurn /\ ~gameOver)
       => \E index \in Empties(board) :
              MoveTransition(index, "player2", "makeComputerMove")

C8_ComputerMove == [][C8_ComputerStep]_vars

\* The heuristic computer has moved and the game goes on.
C8_Witness ==
    /\ ai = "heuristic"
    /\ result.op = "makeComputerMove"
    /\ Succeeded(result)
    /\ ~gameOver
    /\ currentPlayer = "player1"

\* C10: on every board of a game, getBestMove of either selector returns
\* null exactly when no cell is empty, and else the index of an empty cell.
C10_MoveIsEmptyCell ==
    result.op = "getBestMove" =>
        /\ (result.move = null) <=> (Empties(board) = {})
        /\ result.move # null => (result.move \in Cells /\ board[result.move] = "")

\* The minimax selector was asked on a full board.
C10_Witness ==
    /\ result.op = "getBestMove"
    /\ ai = "minimax"
    /\ Empties(board) = {}
    /\ result.move = null

\* The minimax score of each empty cell of b: the computer's marker is placed
\* there and minimax is called at depth 0 with the opponent to move.
CellScores(b) ==
    {<<minimax(Put(b, i, "O"), 0, FALSE, "O", "X"), i>> : i \in Empties(b)}

\* C11: on a board with an empty cell, the minimax getBestMove returns the
\* empty cell whose minimax score is the maximum over the empty cells, and of
\* the cells that share the maximum the one with the lowest index.
C11_MaximumLowestIndex ==
    (result.op = "getBestMove" /\ ai = "minimax" /\ Empties(board) # {}) =>
        LET scores == CellScores(board) IN
        \E best \in scores :
            /\ best[2] = result.move
            /\ \A other \in scores :
                   \/ other[1] < best[1]
                   \/ other[1] = best[1] /\ best[2] <= other[2]

\* The minimax selector has answered on a board where the cell it returned
\* shares the maximum score with a cell of higher index.
C11_Witness ==
    /\ result.op = "getBestMove"
    /\ ai = "minimax"
    /\ board = [i \in Cells |-> IF i \in {0, 1, 4} THEN "X"
                                ELSE IF i \in {2, 3} THEN "O" ELSE ""]
    /\ result.move = 5

\* The empty cells of b that complete a triple of marker.
Completes(b, marker) == {i \in Empties(b) : Occupies(Put(b, i, marker), marker)}

\* C12: on every array of nine cells on which no triple is complete, no
\* empty cell completes a triple of the computer ('O') and exactly one empty
\* cell completes a triple of the opponent ('X'), the minimax getBestMove
\* returns that cell; so it returns 2 on [X,X,_,_,_,_,_,_,_].
C12_MinimaxBlocks ==
    (/\ result.op = "getBestMove"
     /\ ai = "minimax"
     /\ ~Occupies(board, "X")
     /\ ~Occupies(board, "O")
     /\ Completes(board, "O") = {}
     /\ Cardinality(Completes(board, "X")) = 1)
    => result.move \in Completes(board, "X")

\* The minimax selector has answered 2 on [X,X,_,_,_,_,_,_,_].
C12_Witness ==
    /\ result.op = "getBestMove"
    /\ ai = "minimax"
    /\ board = [i \in Cells |-> IF i \in {0, 1} THEN "X" ELSE ""]
    /\ result.move = 2

\* The fixed order of the triples: rows, columns, diagonals.
TripleOrder ==
    << <<0, 1, 2>>, <<3, 4, 5>>, <<6, 7, 8>>,
       <<0, 3, 6>>, <<1, 4, 7>>, <<2, 5, 8>>,
       <<0, 4, 8>>, <<2, 4, 6>> >>

TripleCells(k) == {TripleOrder[k][j] : j \in 1 .. 3}

\* The triples (by position in the fixed order) that hold exactly two cells
\* of marker and one empty cell.
NearTriples(b, marker) ==
    {k \in DOMAIN TripleOrder :
        /\ Cardinality({i \in TripleCells(k) : b[i] = marker}) = 2
        /\ Cardinality({i \in TripleCells(k) : b[i] = ""}) = 1}

\* The empty cell of the first triple of NearTriples(b, marker).
FirstNearCell(b, marker) ==
    LET first == CHOOSE k \in NearTriples(b, marker) :
                     \A other \in NearTriples(b, marker) : k <= other
    IN CHOOSE i \in TripleCells(first) : b[i] = ""

HeuristicAnswered == result.op = "getBestMove" /\ ai = "heuristic"

\* C13: whenever some triple holds exactly two computer markers ('O') and
\* one empty cell, the heuristic getBestMove returns the empty cell of the
\* first such triple in the fixed order, whatever the opponent's triples hold.
C13_WinFirst ==
    (HeuristicAnswered /\ NearTriples(board, "O") # {})
    => result.move = FirstNearCell(board, "O")

\* The heuristic selector has answered on a board where two triples of the
\* computer with different empty cells and a triple of the opponent are all
\* one cell short.
C13_Witness ==
    /\ HeuristicAnswered
    /\ NearTriples(board, "X") # {}
    /\ \E k \in NearTriples(board, "O") :
           /\ k > 1
           /\ \E i \in TripleCells(k) : board[i] = "" /\ i # result.move
    /\ result.move = FirstNearCell(board, "O")

\* C14: whenever no triple holds two computer markers and one empty cell but
\* some triple holds exactly two opponent markers ('X') and one empty cell,
\* the heuristic getBestMove returns the empty cell of the first such
\* opponent triple in the fixed order.
C14_BlockSecond ==
    (/\ HeuristicAnswered
     /\ NearTriples(board, "O") = {}
     /\ NearTriples(board, "X") # {})
    => result.move = FirstNearCell(board, "X")

\* The heuristic selector has blocked the first of two opponent triples with
\* different empty cells, with the center empty.
C14_Witness ==
    /\ HeuristicAnswered
    /\ NearTriples(board, "O") = {}
    /\ board[4] = ""
    /\ \E k \in NearTriples(board, "X") :
           \E i \in TripleCells(k) : board[i] = "" /\ i # result.move
    /\ result.move = FirstNearCell(board, "X")

CornerCells == {0, 2, 6, 8}
EdgeCells == {1, 3, 5, 7}

\* C15: when neither marker has a triple with two of its markers and one
\* empty cell, the heuristic getBestMove returns 4 if the center is empty,
\* else an empty corner if there is one, else an empty edge if there is one;
\* on the empty board it returns 4.
C15_PositionalFallback ==
    /\ (/\ HeuristicAnswered
         /\ NearTriples(board, "O") = {}
         /\ NearTriples(board, "X") = {})
        => IF board[4] = "" THEN result.move = 4
           ELSE IF CornerCells \cap Empties(board) # {}
           THEN result.move \in CornerCells \cap Empties(board)
           ELSE IF EdgeCells \cap Empties(board) # {}
           THEN result.move \in EdgeCells \cap Empties(board)
           ELSE TRUE
    /\ (HeuristicAnswered /\ Empties(board) = Cells) => result.move = 4

\* The heuristic selector has taken a corner other than the first empty one,
\* with the center taken, an edge empty and no triple one cell short.
C15_Witness ==
    /\ HeuristicAnswered
    /\ NearTriples(board, "O") = {}
    /\ NearTriples(board, "X") = {}
    /\ board[4] # ""
    /\ EdgeCells \cap Empties(board) # {}
    /\ result.move \in CornerCells
    /\ \E i \in CornerCells \cap Empties(board) : i < result.move

Count(b, marker) == Cardinality({i \in Cells : b[i] = marker})

\* The human's opening on the opposite corners 0 and 8.
CornerOpening == [i \in Cells |-> IF i = 0 THEN "X" ELSE ""]

OppositeCorners ==
    [i \in Cells |-> IF i \in {0, 8} THEN "X" ELSE IF i = 4 THEN "O" ELSE ""]

\* C16: the heuristic selector can be beaten.  In versus-computer mode with
\* the heuristic selector, makeComputerMove answers X at 0 with the center,
\* and answers X at 0 and 8 (O at 4) with a cell, whatever the random choice,
\* that leaves the game open with the human to move and able to force a win;
\* so some sequence of human moves and random choices ends with player 1 as
\* winner.
C16_LosingLine ==
    (ai = "heuristic" /\ ComputerToMove /\ result'.op = "makeComputerMove")
    => /\ board = CornerOpening => board' = Put(board, 4, "O")
       /\ board = OppositeCorners
          => /\ ~gameOver'
             /\ currentPlayer' = "player1"
             /\ \E i \in Empties(board) : board' = Put(board, i, "O")
             /\ CanForceWin(board', "X", "O")

C16_HeuristicCanBeBeaten == [][C16_LosingLine]_vars

\* A game against the heuristic selector that the human has won on the line
\* of the opposite corners.
C16_Witness ==
    /\ ai = "heuristic"
    /\ vsComputer
    /\ gameOver
    /\ winner = "player1"
    /\ result.op = "makeMove"
    /\ board[0] = "X" /\ board[8] = "X" /\ board[4] = "O"
    /\ Count(board, "X") = 4
    /\ Count(board, "O") = 3
    /\ \E c \in {2, 6} : board[c] = "O"

\* C17: initialize, called in any state, leaves all nine cells empty,
\* player 1 with marker X, player 2 with marker O, player 1 as current
\* player, gameOver false, no winner and vsComputer equal to its mode
\* argument; so after initialize in two-player mode it is not the computer's
\* turn.
C17_InitializeStep ==
    \A name1 \in NameInputs, name2 \in NameInputs, mode \in BOOLEAN :
        (result'.op = "initialize" /\ initialize(name1, name2, mode))
        => /\ DOMAIN board' = Cells
           /\ \A i \in Cells : board'[i] = ""
           /\ player1'.marker = "X"
           /\ player2'.marker = "O"
           /\ currentPlayer' = "player1"
           /\ ~gameOver'
           /\ winner' = "null"
           /\ vsComputer' = mode
           /\ (~mode => ~ComputerTurn')

C17_InitializeResets == [][C17_InitializeStep]_vars

\* initialize in two-player mode has just run.
C17_Witness ==
    /\ result.op = "initialize"
    /\ ~vsComputer
    /\ ~gameOver
    /\ Empties(board) = Cells
    /\ currentPlayer = "player1"
    /\ player2.marker = "O"

WellFormed(b) == DOMAIN b = Cells /\ \A i \in Cells : b[i] \in {"", "X", "O"}

\* C18: under any sequence of initialize, makeMove and makeComputerMove the
\* board has exactly nine cells, each '', 'X' or 'O', and a step that is not
\* an initialize leaves every marker where it is.
C18_BoardStep ==
    /\ WellFormed(board)
    /\ WellFormed(board')
    /\ result'.op # "initialize"
       => \A i \in Cells : board[i] # "" => board'[i] = board[i]

C18_BoardKeepsMarkers == [][C18_BoardStep]_vars

\* Both players have marked cells and a move on a taken cell was tried.
C18_Witness ==
    /\ \E i \in Cells : board[i] = "X"
    /\ \E i \in Cells : board[i] = "O"
    /\ result.op = "makeMove"
    /\ Failed(result)
    /\ ~gameOver

\* C19: setCell(index, marker) writes the marker and returns true exactly
\* when 0 <= index < 9 and the cell is empty; otherwise it returns false and
\* leaves all nine cells as they are.
C19_SetCellStep ==
    \A index \in IndexInputs, marker \in MarkerInputs :
        gameboardSetCell(index, marker)
        => IF index \in Cells /\ board[index] = ""
           THEN result'.returned /\ board' = Put(board, index, marker)
           ELSE ~result'.returned /\ board' = board

C19_SetCellWritesEmptyOnly == [][C19_SetCellStep]_vars

\* setCell has returned false on a board that holds markers and empty cells.
C19_Witness ==
    /\ result.op = "setCell"
    /\ ~result.returned
    /\ Empties(board) # {}
    /\ Empties(board) # Cells

\* The triples (by position in the fixed order) whose cells all hold marker.
FullTriples(b, marker) ==
    {k \in DOMAIN TripleOrder : \A i \in TripleCells(k) : b[i] = marker}

\* C20: getWinningCells returns null while the game is not over and after a
\* draw; after a win it returns the first triple in the fixed order whose
\* three cells hold the winner's marker, also when two triples are complete.
C20_WinningCells ==
    IF ~gameOver \/ winner = "null"
    THEN getWinningCells = << >>
    ELSE /\ getWinningCells # << >>
         /\ \E k \in FullTriples(board, MarkerOfPlayer(winner)) :
                /\ getWinningCells = TripleOrder[k]
                /\ \A other \in FullTriples(board, MarkerOfPlayer(winner)) :
                       k <= other

\* The winning move completed two triples at once.
C20_Witness ==
    /\ gameOver
    /\ winner # "null"
    /\ Cardinality(FullTriples(board, MarkerOfPlayer(winner))) = 2
    /\ getWinningCells # << >>

\* C21: in versus-computer mode no cell click places a marker for the
\* computer: a step that writes an 'O' is a makeComputerMove, and every
\* scheduled callback that runs applies exactly one computer move.
C21_ClickStep ==
    (vsComputer /\ currentPlayer # "null" /\ result'.op # "initialize")
    => /\ (\E i \in Cells : board[i] = "" /\ board'[i] = "O")
          => result'.op = "makeComputerMove"
       /\ timers' < timers
          => /\ Succeeded(result')
             /\ \E i \in Empties(board) : board' = Put(board, i, "O")

C21_OnlyComputerPlacesO == [][C21_ClickStep]_vars

\* C22: on every array of nine cells on which no triple is complete and
\* some empty cell completes a triple of the computer ('O'), the minimax
\* getBestMove returns the lowest such cell, never a cell that only leads to
\* a later forced win.
C22_FastestWin ==
    (/\ result.op = "getBestMove"
     /\ ai = "minimax"
     /\ ~Occupies(board, "X")
     /\ ~Occupies(board, "O")
     /\ Completes(board, "O") # {})
    => /\ result.move \in Completes(board, "O")
       /\ \A i \in Completes(board, "O") : result.move <= i

\* The minimax selector has completed a triple although a cell of lower
\* index would have left the opponent lost.
C22_Witness ==
    /\ result.op = "getBestMove"
    /\ ai = "minimax"
    /\ ~Occupies(board, "X")
    /\ ~Occupies(board, "O")
    /\ result.move \in Completes(board, "O")
    /\ \E i \in Empties(board) :
           /\ i < result.move
           /\ i \notin Completes(board, "O")
           /\ HumanLost(Put(board, i, "O"), "O", "X")

\* C23: the minimax getBestMove leaves the board it is given as it was:
\* the array it searches on is back to the cells of the board when the call
\* returns, every simulated move undone, and the Gameboard cells are the
\* same before and after the call.  The move found is the one
\* makeComputerMove then writes through makeMove.
C23_SearchStep ==
    result'.op = "getBestMove"
    => /\ result'.boardCopy = board
       /\ board' = board
       /\ result'.move \in aiBestMoves(board, "O", "X")

C23_SearchLeavesBoard == [][C23_SearchStep]_vars

\* The search has run on a board with at least four empty cells and found
\* a move.
C23_Witness ==
    /\ result.op = "getBestMove"
    /\ "boardCopy" \in DOMAIN result
    /\ Cardinality(Empties(board)) >= 4
    /\ result.move \in Empties(board)
    /\ result.boardCopy = board

\* C24: in an initialized game that is not over, makeMove(index) with an
\* index outside 0..8 returns success = false with the message 'Cell is
\* already taken!' and changes none of board, current player, gameOver and
\* winner.
C24_OutOfRangeStep ==
    \A index \in IndexInputs \ Cells :
        (/\ currentPlayer # "null"
         /\ ~gameOver
         /\ result'.op = "makeMove"
         /\ makeMove(index))
        => /\ Failed(result')
           /\ "message" \in DOMAIN result'
           /\ result'.message = "Cell is already taken!"
           /\ UNCHANGED game

C24_OutOfRangeRejected == [][C24_OutOfRangeStep]_vars

\* A move was rejected as taken on a board with no marker on it, in an
\* initialized game: its index was out of range.
C24_Witness ==
    /\ currentPlayer # "null"
    /\ ~gameOver
    /\ Empties(board) = Cells
    /\ result.op = "makeMove"
    /\ Failed(result)
    /\ result.message = "Cell is already taken!"

\* C25: in every state after initialize, gameOver is false exactly when no
\* marker occupies a full triple and some cell is empty; no win goes
\* unnoticed although only the mover's marker is tested.
C25_OverIffWonOrFull ==
    currentPlayer # "null"
    => (~gameOver <=> (/\ ~Occupies(board, "X")
                       /\ ~Occupies(board, "O")
                       /\ Empties(board) # {}))

\* Player 2 has won on a diagonal, with cells still empty.
C25_Witness ==
    /\ gameOver
    /\ winner = "player2"
    /\ Empties(board) # {}
    /\ \/ \A i \in {0, 4, 8} : board[i] = "O"
       \/ \A i \in {2, 4, 6} : board[i] = "O"
    /\ ~Occupies(board, "X")

\* C26: in every reachable state a non-null winner implies gameOver, a
\* full triple of the winner's marker and none of the other marker; and
\* gameOver with winner = null implies a full board on which neither marker
\* occupies a full triple.
C26_WinnerAndDraw ==
    /\ winner # "null"
       => /\ gameOver
          /\ Occupies(board, MarkerOfPlayer(winner))
          /\ ~Occupies(board, MarkerOfPlayer(Other(winner)))
    /\ (gameOver /\ winner = "null")
       => /\ Empties(board) = {}
          /\ ~Occupies(board, "X")
          /\ ~Occupies(board, "O")

\* A game has ended in a draw.
C26_Witness ==
    /\ gameOver
    /\ winner = "null"
    /\ Empties(board) = {}
    /\ Succeeded(result)

\* C27: in every state after initialize the number of X cells minus the
\* number of O cells is 0 or 1, and while the game is not over the current
\* player is player 1 exactly when the counts are equal and player 2 exactly
\* when X leads by one.
C27_CountsAndTurn ==
    currentPlayer # "null"
    => LET lead == Count(board, "X") - Count(board, "O") IN
       /\ lead \in {0, 1}
       /\ ~gameOver => /\ (currentPlayer = "player1" <=> lead = 0)
                       /\ (currentPlayer = "player2" <=> lead = 1)

\* It is player 2's turn after the third X.
C27_Witness ==
    /\ ~gameOver
    /\ currentPlayer = "player2"
    /\ Count(board, "X") = 3
    /\ Count(board, "O") = 2

\* A successful makeMove or makeComputerMove fills exactly one empty cell,
\* and the game is over once no cell is empty.
C28_MoveStep ==
    (result'.op \in {"makeMove", "makeComputerMove"} /\ Succeeded(result'))
    => /\ \E i \in Empties(board) :
              /\ board'[i] # ""
              /\ \A j \in Cells \ {i} : board'[j] = board[j]
       /\ Empties(board') = {} => gameOver'

\* C28: every game terminates.  Each successful makeMove or makeComputerMove
\* fills exactly one empty cell, so at most nine succeed after an
\* initialize, the ninth leaves the game over, and when moves keep being
\* attempted on empty cells gameOver = true is reached.
C28_GameTerminates == [][C28_MoveStep]_vars /\ <>gameOver

\* The ninth successful move has ended the game.
C28_Witness ==
    /\ gameOver
    /\ Empties(board) = {}
    /\ Succeeded(result)
    /\ result.gameOver

=============================================================================
